---- MODULE Spec2Model ----
(***************************************************************************)
(* Three command-line programs of the repository, as state machines:       *)
(*   pipeline.py             the pipeline runner                           *)
(*   ingest_homework_data.py the ingestion script                          *)
(*   homework_queries.py     the query script                              *)
(* Each program has its own specification (SpecPipeline, SpecIngest,       *)
(* SpecQuery); the variables of the two programs that are not running      *)
(* keep their idle values.                                                 *)
(***************************************************************************)
EXTENDS Integers, Sequences, FiniteSets, TLC

VARIABLES
    \* ---- pipeline.py
    argv,          \* sys.argv: <<script>> or <<script, argument>>, a string is a sequence of characters
    ppc,           \* position of the pipeline runner
    month,         \* line 14
    df,            \* line 21
    df_month,      \* line 30
    stdout,        \* what the running program has printed, in order
    fs,            \* the output folder: file name -> table written
    fs_before,     \* history: the output folder when the run started
    perr,          \* the uncaught exception of the pipeline runner, "none" while there is none
    \* ---- ingest_homework_data.py
    ipc,           \* position of the ingestion script
    trip_file,     \* green_tripdata_2025-11.parquet: its rows, or Missing / Malformed
    zone_file,     \* taxi_zone_lookup.csv: its rows, or Missing / Malformed
    df_green,      \* line 30
    df_zones,      \* line 54
    green_taxi_data, \* the destination table of the trips: its rows, or NoTable
    zones,         \* the destination table of the zones: its rows, or NoTable
    runs,          \* process invocations of the ingestion script so far
    okRuns,        \* those that ran to the end
    green_before,  \* history: green_taxi_data when the current run started
    zones_before,  \* history: zones when the current run started
    \* ---- homework_queries.py
    qpc,           \* position of the query script
    peerOrder,     \* how the database orders rows whose ORDER BY keys are equal
    failedAt       \* the question number whose pd.read_sql raised, 0 while none

vars == <<argv, ppc, month, df, df_month, stdout, fs, fs_before, perr,
          ipc, trip_file, zone_file, df_green, df_zones, green_taxi_data, zones,
          runs, okRuns, green_before, zones_before,
          qpc, peerOrder, failedAt>>

pipelineVars == <<argv, ppc, month, df, df_month, fs, fs_before, perr>>
ingestVars == <<ipc, trip_file, zone_file, df_green, df_zones, runs, okRuns,
                green_before, zones_before>>
queryVars == <<qpc, peerOrder, failedAt>>
dbVars == <<green_taxi_data, zones>>

\* ------------------------------------------------------------------ values

\* a variable the program has not assigned yet
None == <<>>

\* a database table: absent, or its rows in physical order
NoTable == [exists |-> FALSE, rows |-> <<>>]
Table(rows) == [exists |-> TRUE, rows |-> rows]

\* a source file on disk: absent, unreadable, or its rows
Missing == [state |-> "missing", rows |-> <<>>]
Malformed == [state |-> "malformed", rows |-> <<>>]
File(rows) == [state |-> "ok", rows |-> rows]

\* a nullable column value: SQL NULL (pandas NaN / None), or a value
Null == [null |-> TRUE, v |-> 0]
NullText == [null |-> TRUE, v |-> ""]
Val(x) == [null |-> FALSE, v |-> x]

SeqsUpTo(S, n) == UNION {[1..k -> S] : k \in 0..n}

\* ------------------------------------------------------------ pipeline.py

MaxArgLen == 2

Digits == <<"0", "1", "2", "3", "4", "5", "6", "7", "8", "9">>
DigitChars == {Digits[i] : i \in 1..Len(Digits)}
ArgChars == DigitChars \cup {"-", "+", "_", " ", "x"}

DigitValue(c) == (CHOOSE i \in 1..Len(Digits) : Digits[i] = c) - 1

\* str.strip() of the whitespace int() ignores around the literal
RECURSIVE LStrip(_)
LStrip(s) == IF s # <<>> /\ Head(s) = " " THEN LStrip(Tail(s)) ELSE s
RECURSIVE RStrip(_)
RStrip(s) ==
    IF s # <<>> /\ s[Len(s)] = " " THEN RStrip(SubSeq(s, 1, Len(s) - 1)) ELSE s
Strip(s) == RStrip(LStrip(s))

\* digits, with single underscores allowed between two digits only
IsDigitString(s) ==
    /\ s # <<>>
    /\ \A i \in 1..Len(s) : s[i] \in DigitChars \cup {"_"}
    /\ s[1] # "_" /\ s[Len(s)] # "_"
    /\ \A i \in 1..(Len(s) - 1) : ~(s[i] = "_" /\ s[i + 1] = "_")

RECURSIVE DigitsValue(_, _)
DigitsValue(s, acc) ==
    IF s = <<>> THEN acc
    ELSE IF Head(s) = "_" THEN DigitsValue(Tail(s), acc)
    ELSE DigitsValue(Tail(s), 10 * acc + DigitValue(Head(s)))

ValueError == "ValueError"
IndexError == "IndexError"

\* int(sys.argv[1]) of line 14: ok and the integer, or not ok (ValueError)
IntParse(str) ==
    LET s == Strip(str)
        signed == s # <<>> /\ Head(s) \in {"-", "+"}
        body == IF signed THEN Tail(s) ELSE s
    IN  IF ~IsDigitString(body) THEN [ok |-> FALSE, value |-> 0]
        ELSE IF signed /\ Head(s) = "-"
             THEN [ok |-> TRUE, value |-> 0 - DigitsValue(body, 0)]
        ELSE [ok |-> TRUE, value |-> DigitsValue(body, 0)]

\* str(month) inside the f-strings of lines 15, 31 and 36
RECURSIVE NatToStr(_)
NatToStr(n) ==
    IF n < 10 THEN <<Digits[n + 1]>>
    ELSE NatToStr(n \div 10) \o <<Digits[(n % 10) + 1]>>
IntToStr(n) == IF n < 0 THEN <<"-">> \o NatToStr(0 - n) ELSE NatToStr(n)

\* the data frame literal of lines 21-24
MonthColumn == <<1, 2, 3, 4, 5, 6, 7, 8, 9, 10, 11, 12>>
PassengerColumn == <<10, 20, 30, 40, 50, 60, 70, 80, 90, 100, 110, 120>>
DataFrame ==
    [i \in 1..Len(MonthColumn) |->
        [month |-> MonthColumn[i], num_passengers |-> PassengerColumn[i]]]

HeadRows == 5
\* df.head() of line 27
DfHead(d) == SubSeq(d, 1, IF Len(d) < HeadRows THEN Len(d) ELSE HeadRows)

\* df[df['month'] == month] of line 30
FilterByMonthAtLeast(d, m) == SelectSeq(d, LAMBDA r : r.month >= m)
FilterByMonth(d, m) == SelectSeq(d, LAMBDA r : r.month = m)

\* the path of line 36, below the output folder
OutputName(m) == <<"output_">> \o IntToStr(m) \o <<".parquet">>

\* what line 36 hands to to_parquet
SavedFiltered(d, dm) == dm
SavedTable(d, dm) == d

\* a table left in the output folder by an earlier program
StaleTable == <<[month |-> 0, num_passengers |-> 0]>>
StaleFs == [n \in {OutputName(3)} |-> StaleTable]
EmptyFs == [n \in {} |-> StaleTable]

WriteFile(f, name, data) ==
    [n \in DOMAIN f \cup {name} |-> IF n = name THEN data ELSE f[n]]

PipelineArgs == SeqsUpTo(ArgChars, MaxArgLen)
Script == <<"p", "y">>

PipelineIdle ==
    /\ argv = <<Script>>
    /\ ppc = "idle"
    /\ month = None
    /\ df = None
    /\ df_month = None
    /\ fs = EmptyFs
    /\ fs_before = EmptyFs
    /\ perr = "none"

InitPipeline ==
    /\ argv \in {<<Script>>} \cup {<<Script, a>> : a \in PipelineArgs}
    /\ ppc = "line5"
    /\ month = None
    /\ df = None
    /\ df_month = None
    /\ stdout = <<>>
    /\ fs \in {EmptyFs, StaleFs}
    /\ fs_before = fs
    /\ perr = "none"

\* line 5: print('arguments:', sys.argv)
PrintArguments ==
    /\ ppc = "line5"
    /\ stdout' = Append(stdout, <<"arguments:", argv>>)
    /\ ppc' = "line12"
    /\ UNCHANGED <<argv, month, df, df_month, fs, fs_before, perr>>
    /\ UNCHANGED <<ingestVars, queryVars, dbVars>>

\* line 12: print('first argument:', sys.argv[1]); IndexError without an argument
PrintFirstArgument ==
    /\ ppc = "line12"
    /\ IF Len(argv) < 2
       THEN /\ perr' = IndexError
            /\ ppc' = "error"
            /\ UNCHANGED stdout
       ELSE /\ stdout' = Append(stdout, <<"first argument:", argv[2]>>)
            /\ ppc' = "line14"
            /\ UNCHANGED perr
    /\ UNCHANGED <<argv, month, df, df_month, fs, fs_before>>
    /\ UNCHANGED <<ingestVars, queryVars, dbVars>>

\* lines 14-15 with a range check added: a month outside 1..12 is a ValueError
ParseMonthValidated ==
    /\ ppc = "line14"
    /\ LET m == IntParse(argv[2])
       IN  IF ~m.ok \/ m.value \notin 1..12
           THEN /\ perr' = ValueError
                /\ ppc' = "error"
                /\ UNCHANGED <<month, stdout>>
           ELSE /\ month' = m.value
                /\ stdout' = Append(stdout, <<"Running pipeline for month",
                                              IntToStr(m.value)>>)
                /\ ppc' = "line21"
                /\ UNCHANGED perr
    /\ UNCHANGED <<argv, df, df_month, fs, fs_before>>
    /\ UNCHANGED <<ingestVars, queryVars, dbVars>>

\* lines 14-15 with the parse error swallowed and January taken instead
ParseMonthLenient ==
    /\ ppc = "line14"
    /\ LET m == IntParse(argv[2])
           v == IF m.ok THEN m.value ELSE 1
       IN  /\ month' = v
           /\ stdout' = Append(stdout, <<"Running pipeline for month", IntToStr(v)>>)
           /\ ppc' = "line21"
    /\ UNCHANGED <<argv, df, df_month, fs, fs_before, perr>>
    /\ UNCHANGED <<ingestVars, queryVars, dbVars>>

\* lines 14-15: month = int(sys.argv[1]); print(f"Running pipeline for month {month}")
ParseMonth ==
    /\ ppc = "line14"
    /\ LET m == IntParse(argv[2])
       IN  IF ~m.ok
           THEN /\ perr' = ValueError
                /\ ppc' = "error"
                /\ UNCHANGED <<month, stdout>>
           ELSE /\ month' = m.value
                /\ stdout' = Append(stdout, <<"Running pipeline for month",
                                              IntToStr(m.value)>>)
                /\ ppc' = "line21"
                /\ UNCHANGED perr
    /\ UNCHANGED <<argv, df, df_month, fs, fs_before>>
    /\ UNCHANGED <<ingestVars, queryVars, dbVars>>

\* lines 21-27: df = pd.DataFrame({...}); print(df.head())
BuildDataframe ==
    /\ ppc = "line21"
    /\ df' = DataFrame
    /\ stdout' = Append(stdout, <<"Dataframe:", DfHead(DataFrame)>>)
    /\ ppc' = "line30"
    /\ UNCHANGED <<argv, month, df_month, fs, fs_before, perr>>
    /\ UNCHANGED <<ingestVars, queryVars, dbVars>>

\* lines 30-32: df_month = df[df['month'] == month]; print(df_month)
FilterMonth ==
    /\ ppc = "line30"
    /\ df_month' = FilterByMonth(df, month)
    /\ stdout' = Append(stdout, <<"Dataframe for month", IntToStr(month),
                                  FilterByMonth(df, month)>>)
    /\ ppc' = "line36"
    /\ UNCHANGED <<argv, month, df, fs, fs_before, perr>>
    /\ UNCHANGED <<ingestVars, queryVars, dbVars>>

\* line 36: df.to_parquet(f".../output_{month}.parquet"). The path is relative to
\* the repository root, from where line 4 runs the script, and names the folder
\* the script itself is in: the folder exists.
SaveParquet ==
    /\ ppc = "line36"
    /\ fs' = WriteFile(fs, OutputName(month), SavedTable(df, df_month))
    /\ ppc' = "done"
    /\ UNCHANGED <<argv, month, df, df_month, stdout, fs_before, perr>>
    /\ UNCHANGED <<ingestVars, queryVars, dbVars>>

IngestIdle ==
    /\ ipc = "idle"
    /\ trip_file = Missing
    /\ zone_file = Missing
    /\ df_green = None
    /\ df_zones = None
    /\ runs = 0
    /\ okRuns = 0
    /\ green_before = NoTable
    /\ zones_before = NoTable

QueryIdle ==
    /\ qpc = "idle"
    /\ peerOrder = "asc"
    /\ failedAt = 0

NextPipeline ==
    \/ PrintArguments
    \/ PrintFirstArgument
    \/ ParseMonth
    \/ BuildDataframe
    \/ FilterMonth
    \/ SaveParquet

DbIdle == green_taxi_data = NoTable /\ zones = NoTable

InitP == InitPipeline /\ IngestIdle /\ QueryIdle /\ DbIdle

SpecPipeline == InitP /\ [][NextPipeline]_vars


\* ------------------------------------------------- ingest_homework_data.py

MaxRows == 2      \* rows of a source file
MaxOldRows == 1   \* rows of a destination table before the first run
MaxRuns == 2      \* invocations of the ingestion script

\* timestamps are hours since 2025-10-31 00:00, distances tenths of a mile
\* a row of green_tripdata_2025-11.parquet, with the columns the queries read
TripRow(ts, dist, pu, do, total, tip) ==
    [lpep_pickup_datetime |-> ts, trip_distance |-> dist,
     PULocationID |-> pu, DOLocationID |-> do,
     total_amount |-> total, tip_amount |-> tip]

\* a row of the zones table, with the columns the queries read
ZoneRow(id, name) == [LocationID |-> id, Zone |-> name]

\* a record of taxi_zone_lookup.csv: the Zone field is text
CsvZone(id, text) == [LocationID |-> id, Zone |-> text]

\* pd.read_csv's default na_values, among the texts of the model
NaStrings == {"N/A", "NA", ""}

\* pd.read_csv of line 54: a field whose text is an NA marker becomes NaN
CsvToFrame(lines) ==
    [i \in 1..Len(lines) |->
        ZoneRow(lines[i].LocationID,
                IF lines[i].Zone \in NaStrings THEN NullText ELSE Val(lines[i].Zone))]

\* to_sql(..., if_exists='append')
AppendTable(old, frame) == Table(old.rows \o frame)
\* to_sql(..., if_exists='replace') of lines 44 and 63: drop, create, insert
ReplaceTable(old, frame) == Table(frame)

IngestTrips ==
    {TripRow(18 * 24 + 12, Val(10), 1, 2, Val(20), Val(3)),
     TripRow(31 * 24, Val(25), 2, 1, Null, Val(0))}
IngestCsvZones == {CsvZone(1, "East Harlem North"), CsvZone(264, "N/A")}
IngestOldZones == {ZoneRow(5, Val("Old Zone")), ZoneRow(1, Val("East Harlem North"))}

SourceFiles(rows) == {Missing, Malformed} \cup {File(r) : r \in SeqsUpTo(rows, MaxRows)}
OldTables(rows) == {NoTable} \cup {Table(r) : r \in SeqsUpTo(rows, MaxOldRows)}

InitIngest ==
    /\ ipc = "line30"
    /\ trip_file \in SourceFiles(IngestTrips)
    /\ zone_file \in SourceFiles(IngestCsvZones)
    /\ df_green = None
    /\ df_zones = None
    /\ green_taxi_data \in OldTables(IngestTrips)
    /\ zones \in OldTables(IngestOldZones)
    /\ runs = 1
    /\ okRuns = 0
    /\ green_before = green_taxi_data
    /\ zones_before = zones
    /\ stdout = <<>>

\* an uncaught exception at `line`: the process ends, nothing is undone
IngestRaise(line) ==
    /\ ipc' = "error"
    /\ stdout' = Append(stdout, <<"Traceback", line>>)

\* lines 24-36: df_green = pd.read_parquet('green_tripdata_2025-11.parquet')
ReadParquet ==
    /\ ipc = "line30"
    /\ IF trip_file.state = "ok"
       THEN /\ df_green' = trip_file.rows
            /\ stdout' = Append(stdout, <<"Loaded rows", Len(trip_file.rows)>>)
            /\ ipc' = "line44"
       ELSE /\ IngestRaise(30)
            /\ UNCHANGED df_green
    /\ UNCHANGED <<trip_file, zone_file, df_zones, green_taxi_data, zones,
                   runs, okRuns, green_before, zones_before>>
    /\ UNCHANGED <<pipelineVars, queryVars>>

\* lines 39-47: df_green.to_sql(name='green_taxi_data', if_exists='replace').
\* pandas runs the drop, the create and the inserts of one to_sql in one
\* transaction: a statement the database refuses leaves the table as it was.
InsertGreen ==
    /\ ipc = "line44"
    /\ \E accepted \in BOOLEAN :
        IF accepted
        THEN /\ green_taxi_data' = ReplaceTable(green_taxi_data, df_green)
             /\ stdout' = Append(stdout, <<"Inserted rows", Len(df_green)>>)
             /\ ipc' = "line54"
        ELSE /\ IngestRaise(44)
             /\ UNCHANGED green_taxi_data
    /\ UNCHANGED <<trip_file, zone_file, df_green, df_zones, zones,
                   runs, okRuns, green_before, zones_before>>
    /\ UNCHANGED <<pipelineVars, queryVars>>

\* lines 50-56 with both loads in one transaction: a failure undoes the first
ReadCsvTransactional ==
    /\ ipc = "line54"
    /\ IF zone_file.state = "ok"
       THEN /\ df_zones' = CsvToFrame(zone_file.rows)
            /\ stdout' = Append(stdout, <<"Loaded zones", Len(zone_file.rows)>>)
            /\ ipc' = "line63"
            /\ UNCHANGED green_taxi_data
       ELSE /\ IngestRaise(54)
            /\ green_taxi_data' = green_before
            /\ UNCHANGED df_zones
    /\ UNCHANGED <<trip_file, zone_file, df_green, zones,
                   runs, okRuns, green_before, zones_before>>
    /\ UNCHANGED <<pipelineVars, queryVars>>

\* lines 50-56: df_zones = pd.read_csv('taxi_zone_lookup.csv')
ReadCsv ==
    /\ ipc = "line54"
    /\ IF zone_file.state = "ok"
       THEN /\ df_zones' = CsvToFrame(zone_file.rows)
            /\ stdout' = Append(stdout, <<"Loaded zones", Len(zone_file.rows)>>)
            /\ ipc' = "line63"
       ELSE /\ IngestRaise(54)
            /\ UNCHANGED df_zones
    /\ UNCHANGED <<trip_file, zone_file, df_green, green_taxi_data, zones,
                   runs, okRuns, green_before, zones_before>>
    /\ UNCHANGED <<pipelineVars, queryVars>>

\* lines 59-77: df_zones.to_sql(name='zones', if_exists='replace'), the closing prints
InsertZones ==
    /\ ipc = "line63"
    /\ \E accepted \in BOOLEAN :
        IF accepted
        THEN /\ zones' = ReplaceTable(zones, df_zones)
             /\ stdout' = Append(stdout, <<"Inserted zones", Len(df_zones)>>)
             /\ ipc' = "done"
             /\ okRuns' = okRuns + 1
        ELSE /\ IngestRaise(63)
             /\ UNCHANGED <<zones, okRuns>>
    /\ UNCHANGED <<trip_file, zone_file, df_green, df_zones, green_taxi_data,
                   runs, green_before, zones_before>>
    /\ UNCHANGED <<pipelineVars, queryVars>>

\* the script is started again, on the same source files and the same database
RunAgain ==
    /\ ipc \in {"done", "error"}
    /\ runs < MaxRuns
    /\ runs' = runs + 1
    /\ ipc' = "line30"
    /\ df_green' = None
    /\ df_zones' = None
    /\ stdout' = <<>>
    /\ green_before' = green_taxi_data
    /\ zones_before' = zones
    /\ UNCHANGED <<trip_file, zone_file, green_taxi_data, zones, okRuns>>
    /\ UNCHANGED <<pipelineVars, queryVars>>

NextIngest ==
    \/ ReadParquet
    \/ InsertGreen
    \/ ReadCsv
    \/ InsertZones
    \/ RunAgain

InitI == InitIngest /\ PipelineIdle /\ QueryIdle

SpecIngest == InitI /\ [][NextIngest]_vars


\* ----------------------------------------------------- homework_queries.py

NZones == 6       \* location ids the tables of the model are built over

\* timestamp literals of the queries, in hours since 2025-10-31 00:00
Nov01 == 24
Dec01 == 744
\* date literals, in days since 2025-10-31
DayNov01 == 1
DayNov18 == 18
DayDec01 == 31
\* distance literals, in tenths of a mile
OneMile == 10
HundredMiles == 1000
EastHarlemNorth == "East Harlem North"

\* DATE(lpep_pickup_datetime)
SqlDate(ts) == IF ts.null THEN Null ELSE Val(ts.v \div 24)

\* comparisons of a column with a literal: NULL compares as unknown, which a
\* WHERE clause treats as false
SqlLt(a, lit) == ~a.null /\ a.v < lit
SqlLe(a, lit) == ~a.null /\ a.v <= lit
SqlGe(a, lit) == ~a.null /\ a.v >= lit
SqlEq(a, lit) == ~a.null /\ a.v = lit

RECURSIVE SumOver(_, _)
SumOver(f, D) ==
    IF D = {} THEN 0
    ELSE LET d == CHOOSE x \in D : TRUE IN f[d].v + SumOver(f, D \ {d})

\* SUM(col) and MAX(col) over the rows D of a group: NULLs are skipped, and a
\* group with no value gives NULL
SqlSum(f, D) ==
    LET V == {d \in D : ~f[d].null}
    IN  IF V = {} THEN Null ELSE Val(SumOver(f, V))
SqlMax(f, D) ==
    LET V == {d \in D : ~f[d].null}
    IN  IF V = {} THEN Null
        ELSE Val(CHOOSE m \in {f[d].v : d \in V} : \A d \in V : f[d].v <= m)

\* ORDER BY x ASC: NULLS LAST is PostgreSQL's default for ASC
SqlAscBefore(a, b) ==
    \/ ~a.null /\ b.null
    \/ ~a.null /\ ~b.null /\ a.v < b.v
\* ORDER BY x DESC: a sorts strictly before b; NULLS FIRST is PostgreSQL's
\* default for DESC
SqlDescBefore(a, b) ==
    \/ a.null /\ ~b.null
    \/ ~a.null /\ ~b.null /\ a.v > b.v

ZoneNames == <<EastHarlemNorth, "Astoria", "Bronxdale", "Corona", "Dyker Heights",
               "Elmhurst", "Flatlands", "Glendale", "Homecrest", "Inwood">>
ZoneName(i) == ZoneNames[((i - 1) % Len(ZoneNames)) + 1]

\* the place of a group key among the keys, by which the database happens to
\* return rows whose sort keys are equal (peerOrder: this way or reversed)
TextRank(k) ==
    IF k.null THEN 0
    ELSE IF \E i \in 1..Len(ZoneNames) : ZoneNames[i] = k.v
         THEN CHOOSE i \in 1..Len(ZoneNames) : ZoneNames[i] = k.v
         ELSE Len(ZoneNames) + 1
DayRank(k) == IF k.null THEN 0 - 1 ELSE k.v

\* ORDER BY agg DESC over the groups G: the sorted sequence
OrderByDesc(G, Rank) ==
    LET Before(g, h) ==
            \/ SqlDescBefore(g.agg, h.agg)
            \/ /\ g.agg = h.agg
               /\ IF peerOrder = "asc" THEN Rank[g.key] < Rank[h.key]
                                      ELSE Rank[g.key] > Rank[h.key]
        Pos(g) == 1 + Cardinality({h \in G : Before(h, g)})
    IN  [p \in 1..Cardinality(G) |-> CHOOSE g \in G : Pos(g) = p]

\* LIMIT n
Limit(n, rows) == SubSeq(rows, 1, IF Len(rows) < n THEN Len(rows) ELSE n)

\* q3, lines 40-46, with the distance compared by < instead of <=
Q3Strict(g) ==
    LET hit == {i \in 1..Len(g) :
                  /\ SqlGe(g[i].lpep_pickup_datetime, Nov01)
                  /\ SqlLt(g[i].lpep_pickup_datetime, Dec01)
                  /\ SqlLt(g[i].trip_distance, OneMile)}
    IN  <<[trip_count |-> Cardinality(hit)]>>

\* q3, lines 40-46: COUNT(*) without GROUP BY gives one row, always
Q3(g) ==
    LET hit == {i \in 1..Len(g) :
                  /\ SqlGe(g[i].lpep_pickup_datetime, Nov01)
                  /\ SqlLt(g[i].lpep_pickup_datetime, Dec01)
                  /\ SqlLe(g[i].trip_distance, OneMile)}
    IN  <<[trip_count |-> Cardinality(hit)]>>

\* q4, lines 50-58
Q4(g) ==
    LET hit == {i \in 1..Len(g) : SqlLt(g[i].trip_distance, HundredMiles)}
        dist == [i \in hit |-> g[i].trip_distance]
        keys == {SqlDate(g[i].lpep_pickup_datetime) : i \in hit}
        Group(k) == {i \in hit : SqlDate(g[i].lpep_pickup_datetime) = k}
        G == {[key |-> k, agg |-> SqlMax(dist, Group(k))] : k \in keys}
        sorted == Limit(1, OrderByDesc(G, [k \in keys |-> DayRank(k)]))
    IN  [p \in 1..Len(sorted) |->
            [pickup_date |-> sorted[p].key, max_distance |-> sorted[p].agg]]

\* q5, lines 62-71
Q5(g, z) ==
    LET joined == {<<i, j>> \in (1..Len(g)) \X (1..Len(z)) :
                      g[i].PULocationID = z[j].LocationID}
        hit == {r \in joined : SqlEq(SqlDate(g[r[1]].lpep_pickup_datetime), DayNov18)}
        total == [r \in hit |-> g[r[1]].total_amount]
        keys == {z[r[2]].Zone : r \in hit}
        Group(k) == {r \in hit : z[r[2]].Zone = k}
        G == {[key |-> k, agg |-> SqlSum(total, Group(k))] : k \in keys}
        sorted == Limit(5, OrderByDesc(G, [k \in keys |-> TextRank(k)]))
    IN  [p \in 1..Len(sorted) |->
            [Zone |-> sorted[p].key, total_sum |-> sorted[p].agg]]

\* q6, lines 75-87
Q6(g, z) ==
    LET joined == {<<i, j, k>> \in (1..Len(g)) \X (1..Len(z)) \X (1..Len(z)) :
                      /\ g[i].PULocationID = z[j].LocationID
                      /\ g[i].DOLocationID = z[k].LocationID}
        hit == {r \in joined :
                  /\ SqlEq(z[r[2]].Zone, EastHarlemNorth)
                  /\ SqlGe(SqlDate(g[r[1]].lpep_pickup_datetime), DayNov01)
                  /\ SqlLt(SqlDate(g[r[1]].lpep_pickup_datetime), DayDec01)}
        tip == [r \in hit |-> g[r[1]].tip_amount]
        keys == {z[r[3]].Zone : r \in hit}
        Group(k) == {r \in hit : z[r[3]].Zone = k}
        G == {[key |-> k, agg |-> SqlMax(tip, Group(k))] : k \in keys}
        sorted == Limit(5, OrderByDesc(G, [k \in keys |-> TextRank(k)]))
    IN  [p \in 1..Len(sorted) |->
            [dropoff_zone |-> sorted[p].key, max_tip |-> sorted[p].agg]]

\* the query of question n against the database, and the tables it reads
QueryResult(n) ==
    CASE n = 3 -> Q3(green_taxi_data.rows)
      [] n = 4 -> Q4(green_taxi_data.rows)
      [] n = 5 -> Q5(green_taxi_data.rows, zones.rows)
      [] n = 6 -> Q6(green_taxi_data.rows, zones.rows)
TablesExist(n) ==
    /\ green_taxi_data.exists
    /\ n \in {5, 6} => zones.exists

\* main, lines 47-88: the run_query calls in program order
NextQuestionSkipping(n) == IF n = 3 THEN "q5" ELSE IF n = 5 THEN "q6" ELSE "done"
NextQuestion(n) ==
    CASE n = 3 -> "q4"
      [] n = 4 -> "q5"
      [] n = 5 -> "q6"
      [] n = 6 -> "done"

\* pd.read_sql raises, and a handler goes on with the next question
QueryFailsContinue(n) ==
    /\ qpc' = NextQuestion(n)
    /\ stdout' = stdout \o << <<"Question", n>>, <<"SQL Query", n>>, <<"Failed", n>> >>
    /\ UNCHANGED failedAt
\* pd.read_sql raises at line 28: nothing catches it, the process ends
QueryFails(n) ==
    /\ qpc' = "error"
    /\ failedAt' = n
    /\ stdout' = stdout \o << <<"Question", n>>, <<"SQL Query", n>> >>

\* run_query, lines 18-33: print the question and the query, run it, print the
\* result. pd.read_sql raises when a table of the query does not exist or the
\* database refuses the statement.
run_query(n) ==
    /\ \E accepted \in BOOLEAN :
        IF accepted /\ TablesExist(n)
        THEN /\ stdout' = stdout \o << <<"Question", n>>, <<"SQL Query", n>>,
                                       <<"Result", n, QueryResult(n)>> >>
             /\ qpc' = NextQuestion(n)
             /\ UNCHANGED failedAt
        ELSE QueryFails(n)
    /\ UNCHANGED <<peerOrder, green_taxi_data, zones>>
    /\ UNCHANGED <<pipelineVars, ingestVars>>

RunQ3 == qpc = "q3" /\ run_query(3)
RunQ4 == qpc = "q4" /\ run_query(4)
RunQ5 == qpc = "q5" /\ run_query(5)
RunQ6 == qpc = "q6" /\ run_query(6)

\* ---- the tables the query script is run against

\* column values of the rows of the model, by location id
HourSamples == <<0, 23, 12, 7, 1, 18, 5, 9>>
DaySamples == <<1, 30, 18, 2, 29, 15, 4, 20>>
DistSamples == <<Val(10), Val(9), Val(11), Null, Val(0), Val(999), Val(1000), Val(35)>>
TotalSamples == <<Val(5), Val(0 - 2), Val(7), Null, Val(0 - 2), Val(3), Val(4), Val(9)>>
TipSamples == <<Val(2), Val(6), Null, Val(2), Val(0), Val(4), Val(1), Val(8)>>
Sample(list, s, turned) ==
    list[(((IF turned THEN NZones + 1 - s ELSE s) - 1) % Len(list)) + 1]

\* a trip picked up in zone s on 2025-11-18 and dropped off in zone 1
PickupTrip(s, turned) ==
    TripRow(Val(DayNov18 * 24 + Sample(HourSamples, s, turned)),
            Sample(DistSamples, s, turned), s, 1,
            Sample(TotalSamples, s, turned), Sample(TipSamples, s, ~turned))
\* a trip picked up in zone 1 on a day of November 2025 and dropped off in zone s
DropoffTrip(s, turned) ==
    TripRow(Val(Sample(DaySamples, s, turned) * 24 + Sample(HourSamples, s, ~turned)),
            Sample(DistSamples, s, ~turned), 1, s,
            Sample(TotalSamples, s, ~turned), Sample(TipSamples, s, turned))
\* trips just outside November 2025, a trip with no pickup time and a trip
\* between unknown locations, with amounts above all the others
OutsideTrips ==
    <<TripRow(Val(Nov01 - 1), Val(5), 1, 2, Val(100), Val(100)),
      TripRow(Val(Dec01), Val(10), 1, 3, Val(100), Val(100)),
      TripRow(Null, Val(1), 2, 1, Val(100), Val(100)),
      TripRow(Val(DayNov18 * 24), Val(10), 0, 0, Val(100), Val(100))>>

RECURSIVE Concat(_)
Concat(ss) == IF ss = <<>> THEN <<>> ELSE Head(ss) \o Concat(Tail(ss))

\* the trip table with the trips of `layout` for the zones of S, and the
\* outside trips of O
TripRows(S, layout, turned, O) ==
    Concat([s \in 1..NZones |->
              IF s \notin S THEN <<>>
              ELSE (IF layout \in {"pickup", "both"} THEN <<PickupTrip(s, turned)>> ELSE <<>>)
                   \o (IF layout \in {"dropoff", "both"} THEN <<DropoffTrip(s, turned)>> ELSE <<>>)])
    \o Concat([o \in 1..Len(OutsideTrips) |-> IF o \in O THEN <<OutsideTrips[o]>> ELSE <<>>])

\* the zone table as taxi_zone_lookup.csv gives it: one row per id, one name per id
CleanZones == [i \in 1..NZones |-> ZoneRow(i, Val(ZoneName(i)))]
\* a zone table with a NULL name (N/A in the file), an id with two rows, an
\* id with no row, and two ids of one name
MessyZones ==
    Concat([i \in 1..NZones |->
              CASE i = 2 -> <<ZoneRow(2, NullText)>>
                [] i = 3 -> <<>>
                [] i = 4 -> <<ZoneRow(4, Val(ZoneName(4))), ZoneRow(4, Val(ZoneName(3)))>>
                [] i = 6 -> <<ZoneRow(6, Val(ZoneName(5)))>>
                [] OTHER -> <<ZoneRow(i, Val(ZoneName(i)))>>])
    \o <<ZoneRow(NZones + 1, NullText)>>

QueryTripTables ==
    {NoTable} \cup
    {Table(TripRows(S, layout, turned, O)) :
        S \in SUBSET (1..NZones), layout \in {"pickup", "dropoff", "both"},
        turned \in BOOLEAN, O \in {{}, {1, 2}, {3, 4}, {1, 2, 3, 4}}}
QueryZoneTables == {NoTable, Table(<<>>), Table(CleanZones), Table(MessyZones)}

InitQuery ==
    /\ qpc = "q3"
    /\ peerOrder \in {"asc", "desc"}
    /\ failedAt = 0
    /\ green_taxi_data \in QueryTripTables
    /\ zones \in QueryZoneTables
    /\ stdout = <<>>

NextQuery ==
    \/ RunQ3
    \/ RunQ4
    \/ RunQ5
    \/ RunQ6

InitQ == InitQuery /\ PipelineIdle /\ IngestIdle

SpecQuery == InitQ /\ [][NextQuery]_vars

\* ------------------------------------------------- claims on pipeline.py

\* the sixth print of a run is line 32's print(df_month)
FilterPrinted == ppc \in {"line36", "done"}
PrintedSubset == stdout[Len(stdout)][3]

ArgumentGiven == Len(argv) >= 2
ArgumentNumeric == ArgumentGiven /\ IntParse(argv[2]).ok
FullTable(t) ==
    /\ Len(t) = 12
    /\ \A i \in 1..12 : t[i].month = i /\ t[i].num_passengers = 10 * i
EmbeddedName(m) == <<"output_">> \o IntToStr(m) \o <<".parquet">>

\* C1: for every month m in 1..12 given as the argument, the subset the run
\* prints (df_month) has exactly one row, and that row has month = m.
C1_OneRowForMonth ==
    (FilterPrinted /\ month \in 1..12) =>
        /\ Len(PrintedSubset) = 1
        /\ PrintedSubset[1].month = month
        /\ PrintedSubset = df_month
        /\ month = IntParse(argv[2]).value

C1_Witness ==
    /\ ppc = "done" /\ argv[2] = <<"1", "2">> /\ month = 12
    /\ PrintedSubset = <<[month |-> 12, num_passengers |-> 120]>>

\* C2: whenever the run has written its output file, the file named
\* output_<m>.parquet holds the full 12-row table (months 1..12) whatever m
\* is, not the filtered subset, and no other file of the folder has changed.
C2_FullTablePersisted ==
    ppc = "done" =>
        /\ EmbeddedName(month) \in DOMAIN fs
        /\ FullTable(fs[EmbeddedName(month)])
        /\ DOMAIN fs = DOMAIN fs_before \cup {EmbeddedName(month)}
        /\ \A n \in DOMAIN fs_before : n # EmbeddedName(month) => fs[n] = fs_before[n]

C2_Witness ==
    /\ ppc = "done" /\ month = 7 /\ Len(df_month) = 1
    /\ Len(fs[<<"output_", "7", ".parquet">>]) = 12

\* C3: a run without an argument, or with a non-numeric one, never gets past
\* the argument (IndexError at line 12, ValueError at line 14), and in the
\* error state the output folder is as it was when the run started.
C3_ErrorBeforeWrite ==
    /\ ~ArgumentGiven => ppc \in {"line5", "line12", "error"}
    /\ (ArgumentGiven /\ ~ArgumentNumeric) => ppc \in {"line5", "line12", "line14", "error"}
    /\ ppc = "error" =>
        /\ fs = fs_before
        /\ ~ArgumentNumeric
        /\ perr = (IF ArgumentGiven THEN ValueError ELSE IndexError)

C3_Witness ==
    /\ ppc = "error" /\ perr = ValueError /\ argv[2] = <<"x", "1">>
    /\ fs = StaleFs

\* C10: for every integer argument m outside 1..12 (0 and negative values
\* included) the run does not fail, the printed subset is empty, and the file
\* named with m is written with all 12 rows.
C10_NoRangeValidation ==
    (ArgumentNumeric /\ IntParse(argv[2]).value \notin 1..12) =>
        /\ ppc # "error"
        /\ FilterPrinted => PrintedSubset = <<>> /\ df_month = <<>>
        /\ ppc = "done" =>
            /\ EmbeddedName(IntParse(argv[2]).value) \in DOMAIN fs
            /\ FullTable(fs[EmbeddedName(IntParse(argv[2]).value)])

C10_Witness ==
    /\ ppc = "done" /\ argv[2] = <<"-", "5">> /\ month = 0 - 5
    /\ df_month = <<>>
    /\ Len(fs[<<"output_", "-", "5", ".parquet">>]) = 12

\* ------------------------------------- claims on ingest_homework_data.py

\* the line of the traceback a failed run ended with
FailedLine == stdout[Len(stdout)][2]

\* C4: once the script has run to the end at least once, and however often it
\* is run again on the same source files, each destination table holds one
\* copy of its source file's rows: as many rows as the file, whatever the
\* table held before the first run.
C4_OneCopyAfterRuns ==
    okRuns >= 1 =>
        /\ green_taxi_data.exists /\ zones.exists
        /\ green_taxi_data.rows = trip_file.rows
        /\ Len(green_taxi_data.rows) = Len(trip_file.rows)
        /\ Len(zones.rows) = Len(zone_file.rows)
        /\ \A i \in 1..Len(zone_file.rows) :
              /\ zones.rows[i].LocationID = zone_file.rows[i].LocationID
              /\ zones.rows[i].Zone.null = (zone_file.rows[i].Zone \in {"N/A", "NA", ""})
              /\ ~zones.rows[i].Zone.null => zones.rows[i].Zone.v = zone_file.rows[i].Zone

C4_Witness ==
    /\ okRuns = 2 /\ ipc = "done"
    /\ Len(trip_file.rows) = 2 /\ Len(green_taxi_data.rows) = 2
    /\ Len(zone_file.rows) = 1 /\ Len(zones.rows) = 1

\* C5: a run that fails after the trip table was loaded (the zone file is
\* missing or malformed, or the zone load is refused) ends with
\* green_taxi_data replaced by the new data and zones as it was before the
\* run: the first load is not rolled back.
C5_NoRollback ==
    (ipc = "error" /\ FailedLine \in {54, 63}) =>
        /\ green_taxi_data.exists
        /\ green_taxi_data.rows = trip_file.rows
        /\ zones = zones_before

C5_Witness ==
    /\ ipc = "error" /\ FailedLine = 54 /\ zone_file = Missing
    /\ green_before = NoTable /\ Len(green_taxi_data.rows) = 2
    /\ zones = zones_before /\ Len(zones.rows) = 1

\* ---------------------------------------- claims on homework_queries.py

\* what a run has printed so far, without the result tables
Tags == [i \in 1..Len(stdout) |-> <<stdout[i][1], stdout[i][2]>>]
Printed(n) == << <<"Question", n>>, <<"SQL Query", n>>, <<"Result", n>> >>
Results == {i \in 1..Len(stdout) : stdout[i][1] = "Result"}
HasResult(n) == \E i \in Results : stdout[i][2] = n
ResultOf(n) == stdout[CHOOSE i \in Results : stdout[i][2] = n][3]
QueryBeforeResult ==
    \A i \in Results : i > 1 /\ Tags[i - 1] = <<"SQL Query", stdout[i][2]>>

\* C6 as stated: a successful run executes five SQL statements, in a fixed
\* order, each query text printed before its result.
C6_FiveStatements ==
    qpc = "done" => (Cardinality(Results) = 5 /\ QueryBeforeResult)

\* C6 as amended: a successful run executes four SQL statements, those of
\* questions 3, 4, 5 and 6 in this order, and prints each query text before
\* its result.
C6_FourStatementsInOrder ==
    qpc = "done" =>
        /\ Cardinality(Results) = 4
        /\ Tags = Printed(3) \o Printed(4) \o Printed(5) \o Printed(6)
        /\ QueryBeforeResult

C6_Witness ==
    /\ qpc = "done" /\ Len(stdout) = 12
    /\ Len(ResultOf(5)) = 5 /\ Len(ResultOf(3)) = 1

\* C7: when the query of question i raises, the run is over: every question
\* before i has its query and its result printed, question i has its query
\* printed and no result, nothing of a later question is printed, and no
\* step of the script can follow; a query printed without its result is
\* always the last thing such a run prints.
C7_FailureAborts ==
    /\ qpc = "error" =>
        /\ failedAt \in {3, 4, 5, 6}
        /\ Tags = Concat([k \in 1..(failedAt - 3) |-> Printed(k + 2)])
                  \o << <<"Question", failedAt>>, <<"SQL Query", failedAt>> >>
        /\ \A n \in 3..6 : HasResult(n) <=> n < failedAt
        /\ ~ENABLED NextQuery
    /\ \A i \in 1..Len(Tags) :
          Tags[i][1] = "SQL Query" =>
              \/ i < Len(Tags) /\ Tags[i + 1] = <<"Result", Tags[i][2]>>
              \/ i = Len(Tags) /\ qpc = "error" /\ failedAt = Tags[i][2]

C7_Witness ==
    /\ qpc = "error" /\ failedAt = 5
    /\ green_taxi_data.exists /\ ~zones.exists
    /\ HasResult(3) /\ HasResult(4) /\ ~HasResult(5) /\ ~HasResult(6)

\* ---- the aggregates of q5 and q6, stated row by row
Trips == green_taxi_data.rows
ZoneTable == zones.rows
\* the rows of the zone table that give location id `id` the name `name`
NameCount(id, name) ==
    Cardinality({j \in 1..Len(ZoneTable) :
                    ZoneTable[j].LocationID = id /\ ZoneTable[j].Zone = name})
AllNames == {ZoneTable[j].Zone : j \in 1..Len(ZoneTable)}
PickedUpOn(t, day) ==
    ~t.lpep_pickup_datetime.null /\ t.lpep_pickup_datetime.v \in (24 * day)..(24 * day + 23)
InNovember(t) ==
    ~t.lpep_pickup_datetime.null /\ t.lpep_pickup_datetime.v \in 24..743

Q5Counts(k, name) ==
    PickedUpOn(Trips[k], 18) /\ NameCount(Trips[k].PULocationID, name) > 0
Q5Names == {name \in AllNames : \E k \in 1..Len(Trips) : Q5Counts(k, name)}
RECURSIVE Q5SumTo(_, _)
Q5SumTo(name, k) ==
    IF k = 0 THEN 0
    ELSE Q5SumTo(name, k - 1)
         + (IF Q5Counts(k, name) /\ ~Trips[k].total_amount.null
            THEN Trips[k].total_amount.v * NameCount(Trips[k].PULocationID, name)
            ELSE 0)
Q5Total(name) ==
    IF \E k \in 1..Len(Trips) : Q5Counts(k, name) /\ ~Trips[k].total_amount.null
    THEN Val(Q5SumTo(name, Len(Trips)))
    ELSE Null

Q6Counts(k, name) ==
    /\ InNovember(Trips[k])
    /\ NameCount(Trips[k].PULocationID, Val("East Harlem North")) > 0
    /\ NameCount(Trips[k].DOLocationID, name) > 0
Q6Names == {name \in AllNames : \E k \in 1..Len(Trips) : Q6Counts(k, name)}
Q6Tips(name) ==
    {Trips[k].tip_amount.v :
        k \in {i \in 1..Len(Trips) : Q6Counts(i, name) /\ ~Trips[i].tip_amount.null}}
Q6MaxTip(name) ==
    IF Q6Tips(name) = {} THEN Null
    ELSE Val(CHOOSE m \in Q6Tips(name) : \A t \in Q6Tips(name) : t <= m)

\* a is not below b in descending order; as PostgreSQL orders a column, NULL
\* stands above every value
NotBelow(a, b) == a.null \/ (~b.null /\ a.v >= b.v)

\* R holds the top five of the zone names Names by Agg
TopFive(R, Names, Agg) ==
    /\ Len(R) <= 5
    /\ Len(R) = (IF Cardinality(Names) < 5 THEN Cardinality(Names) ELSE 5)
    /\ \A p \in 1..Len(R) : R[p].zone \in Names /\ R[p].agg = Agg[R[p].zone]
    /\ \A p, q \in 1..Len(R) : p < q => R[p].zone # R[q].zone
    /\ \A p, q \in 1..Len(R) : p < q => NotBelow(R[p].agg, R[q].agg)
    /\ \A name \in Names \ {R[p].zone : p \in 1..Len(R)} :
          \A p \in 1..Len(R) : NotBelow(R[p].agg, Agg[name])

Q5Rows ==
    [p \in 1..Len(ResultOf(5)) |->
        [zone |-> ResultOf(5)[p].Zone, agg |-> ResultOf(5)[p].total_sum]]
Q6Rows ==
    [p \in 1..Len(ResultOf(6)) |->
        [zone |-> ResultOf(6)[p].dropoff_zone, agg |-> ResultOf(6)[p].max_tip]]

\* C8: whatever the trip and zone tables hold, q5 and q6 each return at most
\* 5 rows, one row per zone name with that zone's aggregate (q5: the sum of
\* total_amount of the pickups of 2025-11-18; q6: the largest tip_amount of
\* the November 2025 pickups in East Harlem North, per dropoff zone), in
\* descending order of the aggregate, and no zone left out has an aggregate
\* strictly above that of a zone in the result.
C8_TopFiveDescending ==
    /\ HasResult(5) => TopFive(Q5Rows, Q5Names, [name \in Q5Names |-> Q5Total(name)])
    /\ HasResult(6) => TopFive(Q6Rows, Q6Names, [name \in Q6Names |-> Q6MaxTip(name)])

C8_Witness ==
    /\ HasResult(5) /\ HasResult(6)
    /\ Len(ResultOf(5)) = 5 /\ Cardinality(Q5Names) > 5
    /\ Len(ResultOf(6)) = 5 /\ Cardinality(Q6Names) > 5
    /\ \E name \in Q5Names \ {Q5Rows[p].zone : p \in 1..5} :
          Q5Total(name) = Q5Rows[5].agg

\* C9: whatever the trip table holds, q3 returns exactly one row, whose
\* trip_count is the number of trips picked up in [2025-11-01, 2025-12-01)
\* with trip_distance <= 1, a distance of exactly 1 counted; with no such
\* trip, or no trip at all, the row says 0.
C9_CountShortTrips ==
    HasResult(3) =>
        /\ Len(ResultOf(3)) = 1
        /\ ResultOf(3)[1].trip_count =
              Cardinality({k \in 1..Len(Trips) :
                              /\ InNovember(Trips[k])
                              /\ ~Trips[k].trip_distance.null
                              /\ Trips[k].trip_distance.v <= 10})

C9_Witness ==
    /\ HasResult(3) /\ ResultOf(3) = <<[trip_count |-> 0]>>
    /\ Len(Trips) >= 2
    /\ \E k \in 1..Len(Trips) : InNovember(Trips[k]) /\ Trips[k].trip_distance = Val(11)
    /\ \E k \in 1..Len(Trips) : ~InNovember(Trips[k]) /\ Trips[k].trip_distance = Val(10)

====
